---- MODULE Spec2Model ----
(***************************************************************************)
(* Position-lifecycle simulation engine of backtest_rig                    *)
(* (src/core/trade_simulator.py): class Trade, class TradeSimulator.       *)
(*                                                                         *)
(* Numbers.  The engine computes with Python floats.  A float operation    *)
(* returns the exact result rounded to the nearest representable value;    *)
(* the model keeps that shape with a decimal fixed-point format: a number  *)
(* x is the integer x * Scale, and every product and quotient is rounded   *)
(* to the nearest unit (ties to even) right where the code computes it,    *)
(* in the code's order of evaluation.  Sums and differences are exact.     *)
(*                                                                         *)
(* Objects.  A Trade is a mutable object that the lists `positions` and    *)
(* `trade_history` hold by reference.  The field `id` is the object's      *)
(* identity; the other fields are the dataclass fields.  Optional fields   *)
(* are <<>> (None) or <<v>>.                                               *)
(***************************************************************************)
EXTENDS Integers, Sequences, FiniteSets

VARIABLES
    initial_balance,  \* TradeSimulator.initial_balance
    balance,          \* TradeSimulator.balance
    positions,        \* TradeSimulator.positions (list of open Trade objects)
    trade_history,    \* TradeSimulator.trade_history (list)
    pc,               \* where the caller is: "idle", or a position inside run()
    idx,              \* run(): index (timestamp) of the current / last row
    current_price,    \* run(): close of the current / last row
    nrows,            \* number of rows of the feed consumed so far
    feed_valid,       \* every row consumed so far has signal in {-1,0,1} and weight in [0,1]
    feed_order,       \* the timestamps of the rows consumed so far: increasing, nondecreasing or unordered
    nobjs,            \* number of Trade objects created so far (next id - 1)
    call              \* the last engine operation and its arguments

vars == << initial_balance, balance, positions, trade_history, pc, idx,
           current_price, nrows, feed_valid, feed_order, nobjs, call >>

-----------------------------------------------------------------------------
(* Fixed-point numbers *)

Scale == 10 * 10 * 10

\* n / d rounded to the nearest integer, ties to even (d > 0)
Round(n, d) ==
    LET q == n \div d
        r == n % d
    IN  IF 2 * r < d THEN q
        ELSE IF 2 * r > d THEN q + 1
        ELSE IF q % 2 = 0 THEN q ELSE q + 1

Mul(a, b) == Round(a * b, Scale)
Div(a, b) == Round(a * Scale, b)
One == Scale

-----------------------------------------------------------------------------
(* Bounds and input sets *)

MaxBars == 3
MaxOps == 3
MaxTrades == 3

\* close prices of the feed (10.0 and 11.0): 11.0 is above the target of an
\* entry at 10.0, and 10.0 is below the stop of an entry at 11.0
Prices == {10 * Scale, 11 * Scale}
\* index values of the feed; the index is not validated by run()
Timestamps == {1, 2}
\* signal column: -1, 0, 1 are the documented values, 2 is outside them
Signals == {-1, 0, 1, 2}
\* trade_weight column: 0, 0.5, 1.0 are in [0,1], 1.5 is outside
Weights == {0, Scale \div 2, Scale, (3 * Scale) \div 2}
InitialBalances == {0, 100 * Scale}

SignalCols == {"signal", "trade_weight"}
MarketCols == {"open", "high", "low", "close", "volume"}

commission_rate == Scale \div 1000
default_risk_pct == (2 * Scale) \div 100
default_reward_pct == (5 * Scale) \div 100

Range(s) == {s[i] : i \in DOMAIN s}

-----------------------------------------------------------------------------
(* class Trade *)

NoneValue == << >>
Some(v) == << v >>

\* Trade(entry_date, entry_price, shares, position_weight, stop_loss=,
\* target_price=, position_type=) with the dataclass defaults for the rest
Trade(id, entry_date, entry_price, shares, position_weight, stop_loss, target_price, position_type) ==
    [ id              |-> id,
      entry_date      |-> entry_date,
      entry_price     |-> entry_price,
      shares          |-> shares,
      position_weight |-> position_weight,
      exit_date       |-> NoneValue,
      exit_price      |-> NoneValue,
      stop_loss       |-> stop_loss,
      target_price    |-> target_price,
      status          |-> "OPEN",
      reason          |-> NoneValue,
      position_type   |-> position_type ]

\* dataclass __eq__: all fields equal (identity is not a field)
Fields(t) == [t EXCEPT !.id = 0]

\* list membership / list.remove comparison: `x is t or x == t`
SameOrEqual(x, t) == x.id = t.id \/ Fields(x) = Fields(t)

\* `position in self.positions`
Contains(list, position) ==
    \E i \in DOMAIN list : SameOrEqual(list[i], position)

\* mutant of Remove: the position is never taken out of the list
RemoveNothing(list, position) == list

\* list.remove(position): drops the first element that is or equals position
\* (a list without such an element is returned as it is; the engine calls
\* remove only after the membership test on the same list)
Remove(list, position) ==
    IF ~Contains(list, position) THEN list
    ELSE LET k == CHOOSE i \in DOMAIN list :
                    /\ SameOrEqual(list[i], position)
                    /\ \A j \in 1..(i - 1) : ~SameOrEqual(list[j], position)
         IN  [i \in 1..(Len(list) - 1) |-> IF i < k THEN list[i] ELSE list[i + 1]]

\* the lists hold references: a write to a field of an object shows in every
\* list that holds the object
Store(list, obj) ==
    [i \in DOMAIN list |-> IF list[i].id = obj.id THEN obj ELSE list[i]]

-----------------------------------------------------------------------------
(* TradeSimulator: the engine state is e = [balance, positions, trade_history] *)

Engine(b, ps, th) == [balance |-> b, positions |-> ps, trade_history |-> th]

\* __init__
NewEngine(ib) == Engine(ib, << >>, << >>)

\* _enter_position, lines 129-138: the number of shares bought
EntryShares(bal, entry_price, position_weight) ==
    LET available_balance == Mul(bal, position_weight)
        shares == Div(available_balance, entry_price)
        commission == Mul(Mul(shares, entry_price), commission_rate)
    IN  IF Mul(shares, entry_price) + commission > available_balance
        THEN Div(Div(available_balance, One + commission_rate), entry_price)
        ELSE shares

\* commission = shares * entry_price * self.commission_rate
Commission(shares, price) == Mul(Mul(shares, price), commission_rate)

\* stop_loss=entry_price * (1 - risk_pct)
StopLoss(entry_price, position_type, risk_pct) ==
    Mul(entry_price, One - risk_pct)

\* mutant of TargetPrice: the reward is a fiftieth of reward_pct, less than the commissions
TargetPriceTiny(entry_price, position_type, reward_pct) ==
    Mul(entry_price, One + reward_pct \div 50)

\* target_price=entry_price * (1 + reward_pct)
TargetPrice(entry_price, position_type, reward_pct) ==
    Mul(entry_price, One + reward_pct)

\* mutant of EntrySkipped: only a negative number of shares is skipped
SkipNegativeOnly(shares) == shares < 0

\* shares <= 0: the entry is skipped
EntrySkipped(shares) == shares <= 0

_enter_position(e, id, entry_price, entry_date, position_type, position_weight, risk_pct, reward_pct) ==
    LET shares == EntryShares(e.balance, entry_price, position_weight)
        commission == Commission(shares, entry_price)
        position == Trade(id, entry_date, entry_price, shares, position_weight,
                          StopLoss(entry_price, position_type, risk_pct),
                          TargetPrice(entry_price, position_type, reward_pct),
                          position_type)
    IN  IF EntrySkipped(shares) THEN e
        ELSE Engine(e.balance - (Mul(shares, entry_price) + commission),
                    Append(e.positions, position),
                    e.trade_history)

\* mutant of NotOpen: no membership test before the exit
NotOpenNever(e, position) == FALSE

\* _exit_position, line 169: the guard
NotOpen(e, position) == ~Contains(e.positions, position)

\* mutant of Closed: the reason is not recorded
ClosedWithoutReason(position, exit_price, exit_date, reason) ==
    [position EXCEPT !.exit_date = Some(exit_date),
                     !.exit_price = Some(exit_price),
                     !.status = "CLOSED"]

\* _exit_position, lines 172-175: the writes to the position object
Closed(position, exit_price, exit_date, reason) ==
    [position EXCEPT !.exit_date = Some(exit_date),
                     !.exit_price = Some(exit_price),
                     !.status = "CLOSED",
                     !.reason = Some(reason)]

\* mutant of ExitCredit: the exit commission is not deducted
ExitCreditNoCommission(position, exit_price) ==
    Mul(position.shares, exit_price)

\* _exit_position, line 187: the amount credited to balance
ExitCredit(position, exit_price) ==
    Mul(position.shares, exit_price) - Commission(position.shares, exit_price)

\* mutant of _exit_position: the closed trade is put at the front of the
\* history
ExitPrepend(e, position, exit_price, exit_date, reason) ==
    IF NotOpen(e, position) THEN e
    ELSE LET obj == Closed(position, exit_price, exit_date, reason)
         IN  Engine(e.balance + ExitCredit(position, exit_price),
                    Remove(Store(e.positions, obj), obj),
                    << obj >> \o Store(e.trade_history, obj))

_exit_position(e, position, exit_price, exit_date, reason) ==
    IF NotOpen(e, position) THEN e
    ELSE LET obj == Closed(position, exit_price, exit_date, reason)
         IN  Engine(e.balance + ExitCredit(position, exit_price),
                    Remove(Store(e.positions, obj), obj),
                    Append(Store(e.trade_history, obj), obj))

\* mutant of CheckStops: the target is tested before the stop
CheckStopsTargetFirst(e, position, price, current_time) ==
    IF position.position_type = "LONG"
    THEN IF price >= position.target_price
         THEN _exit_position(e, position, position.target_price, current_time, "TARGET")
         ELSE IF price <= position.stop_loss
         THEN _exit_position(e, position, position.stop_loss, current_time, "STOP_LOSS")
         ELSE e
    ELSE IF price <= position.target_price
         THEN _exit_position(e, position, position.target_price, current_time, "TARGET")
         ELSE IF price >= position.stop_loss
         THEN _exit_position(e, position, position.stop_loss, current_time, "STOP_LOSS")
         ELSE e

\* mutant of CheckStops: the target test of a LONG position compares with the
\* entry price
CheckStopsAtEntryPrice(e, position, price, current_time) ==
    IF position.position_type = "LONG"
    THEN IF price <= position.stop_loss
         THEN _exit_position(e, position, position.stop_loss, current_time, "STOP_LOSS")
         ELSE IF price >= position.entry_price
         THEN _exit_position(e, position, position.target_price, current_time, "TARGET")
         ELSE e
    ELSE IF price >= position.stop_loss
         THEN _exit_position(e, position, position.stop_loss, current_time, "STOP_LOSS")
         ELSE IF price <= position.target_price
         THEN _exit_position(e, position, position.target_price, current_time, "TARGET")
         ELSE e

\* mutant of CheckStops: the exit fills at the triggering price
CheckStopsAtMarket(e, position, price, current_time) ==
    IF position.position_type = "LONG"
    THEN IF price <= position.stop_loss
         THEN _exit_position(e, position, price, current_time, "STOP_LOSS")
         ELSE IF price >= position.target_price
         THEN _exit_position(e, position, price, current_time, "TARGET")
         ELSE e
    ELSE IF price >= position.stop_loss
         THEN _exit_position(e, position, price, current_time, "STOP_LOSS")
         ELSE IF price <= position.target_price
         THEN _exit_position(e, position, price, current_time, "TARGET")
         ELSE e

\* _update_positions, the body of the loop for one position
CheckStops(e, position, price, current_time) ==
    IF position.position_type = "LONG"
    THEN IF price <= position.stop_loss
         THEN _exit_position(e, position, position.stop_loss, current_time, "STOP_LOSS")
         ELSE IF price >= position.target_price
         THEN _exit_position(e, position, position.target_price, current_time, "TARGET")
         ELSE e
    ELSE IF price >= position.stop_loss
         THEN _exit_position(e, position, position.stop_loss, current_time, "STOP_LOSS")
         ELSE IF price <= position.target_price
         THEN _exit_position(e, position, position.target_price, current_time, "TARGET")
         ELSE e

\* for position in <copy of a list>: body(position)
RECURSIVE ForEachCheckStops(_, _, _, _)
ForEachCheckStops(e, copy, price, current_time) ==
    IF copy = << >> THEN e
    ELSE ForEachCheckStops(CheckStops(e, Head(copy), price, current_time),
                           Tail(copy), price, current_time)

\* mutant of _update_positions: no position is examined
UpdateNothing(e, price, current_time) == e

_update_positions(e, price, current_time) ==
    ForEachCheckStops(e, e.positions, price, current_time)

\* sorted(list, key=lambda x: x.entry_date): a stable sort, ascending
RECURSIVE InsertByEntryDate(_, _)
InsertByEntryDate(sortedList, x) ==
    IF sortedList = << >> THEN << x >>
    ELSE LET last == sortedList[Len(sortedList)]
         IN  IF last.entry_date <= x.entry_date
             THEN Append(sortedList, x)
             ELSE Append(InsertByEntryDate(SubSeq(sortedList, 1, Len(sortedList) - 1), x),
                         last)

\* mutant of SortedByEntryDate: the open list is taken in its own order
Unsorted(list) == list

RECURSIVE SortedByEntryDate(_)
SortedByEntryDate(list) ==
    IF list = << >> THEN << >>
    ELSE InsertByEntryDate(SortedByEntryDate(SubSeq(list, 1, Len(list) - 1)),
                           list[Len(list)])

\* for position in <list>: self._exit_position(position, exit_price, exit_date, reason)
RECURSIVE ForEachExit(_, _, _, _, _)
ForEachExit(e, list, exit_price, exit_date, reason) ==
    IF list = << >> THEN e
    ELSE ForEachExit(_exit_position(e, Head(list), exit_price, exit_date, reason),
                     Tail(list), exit_price, exit_date, reason)

\* mutant of ProcessSignal: an exit signal closes the oldest position only
ProcessSignalCloseOldest(e, id, signal, trade_weight, price, date) ==
    IF signal # 0 /\ trade_weight > 0
    THEN IF signal = 1
         THEN _enter_position(e, id, price, date, "LONG", trade_weight,
                              default_risk_pct, default_reward_pct)
         ELSE IF signal = -1 /\ e.positions # << >>
         THEN ForEachExit(e, << Head(SortedByEntryDate(e.positions)) >>, price, date, "SIGNAL")
         ELSE e
    ELSE e

\* mutant of ProcessSignal: the weight is not tested
ProcessSignalAnyWeight(e, id, signal, trade_weight, price, date) ==
    IF signal # 0
    THEN IF signal = 1
         THEN _enter_position(e, id, price, date, "LONG", trade_weight,
                              default_risk_pct, default_reward_pct)
         ELSE IF signal = -1
         THEN ForEachExit(e, SortedByEntryDate(e.positions), price, date, "SIGNAL")
         ELSE e
    ELSE e

\* run(), lines 84-101: the dispatch of one row's signal
ProcessSignal(e, id, signal, trade_weight, price, date) ==
    IF signal # 0 /\ trade_weight > 0
    THEN IF signal = 1
         THEN _enter_position(e, id, price, date, "LONG", trade_weight,
                              default_risk_pct, default_reward_pct)
         ELSE IF signal = -1
         THEN ForEachExit(e, SortedByEntryDate(e.positions), price, date, "SIGNAL")
         ELSE e
    ELSE e

\* mutant of CloseRemaining: the loop runs over self.positions itself while
\* _exit_position removes from it, so every second position is skipped
RECURSIVE EveryOther(_)
EveryOther(list) ==
    IF Len(list) <= 1 THEN list
    ELSE << Head(list) >> \o EveryOther(Tail(Tail(list)))

CloseRemainingNoCopy(e, final_price, final_date) ==
    ForEachExit(e, EveryOther(e.positions), final_price, final_date, "BACKTEST_END")

\* run(), lines 103-111: close what is left at the last row's close
CloseRemaining(e, final_price, final_date) ==
    ForEachExit(e, e.positions, final_price, final_date, "BACKTEST_END")

\* mutant of ColumnsPresent: only the signal frame is checked
ColumnsPresentSignalsOnly(signal_cols, market_cols) ==
    \A col \in SignalCols : col \in signal_cols

\* run(), lines 64-67: the column checks
ColumnsPresent(signal_cols, market_cols) ==
    /\ \A col \in SignalCols : col \in signal_cols
    /\ \A col \in MarketCols : col \in market_cols

-----------------------------------------------------------------------------
(* Metrics *)

\* a float result: a finite number, float('inf'), or ZeroDivisionError raised
Finite(v) == [kind |-> "finite", value |-> v]
Infinity == [kind |-> "inf", value |-> 0]
ZeroDivision == [kind |-> "ZeroDivisionError", value |-> 0]

Max(a, b) == IF a >= b THEN a ELSE b

\* _exit_position, lines 177-185: the P/L that is logged at exit time
ExitPnl(position, exit_price) ==
    LET entry_commission == Mul(Mul(position.shares, position.entry_price), commission_rate)
        exit_commission == Mul(Mul(position.shares, exit_price), commission_rate)
        total_commission == entry_commission + exit_commission
    IN  IF position.position_type = "LONG"
        THEN Mul(exit_price - position.entry_price, position.shares) - total_commission
        ELSE Mul(position.entry_price - exit_price, position.shares) - total_commission

\* mutant of _calculate_trade_pnl: only the exit commission is subtracted
TradePnlExitCommissionOnly(trade) ==
    LET exit_commission == Mul(Mul(trade.shares, trade.exit_price[1]), commission_rate)
    IN  IF trade.position_type = "LONG"
        THEN Mul(trade.exit_price[1] - trade.entry_price, trade.shares) - exit_commission
        ELSE Mul(trade.entry_price - trade.exit_price[1], trade.shares) - exit_commission

\* _calculate_trade_pnl
_calculate_trade_pnl(trade) ==
    LET entry_commission == Mul(Mul(trade.shares, trade.entry_price), commission_rate)
        exit_commission == Mul(Mul(trade.shares, trade.exit_price[1]), commission_rate)
        total_commission == entry_commission + exit_commission
    IN  IF trade.position_type = "LONG"
        THEN Mul(trade.exit_price[1] - trade.entry_price, trade.shares) - total_commission
        ELSE Mul(trade.entry_price - trade.exit_price[1], trade.shares) - total_commission

\* the literal 0.001 of the static methods
literal_rate == Scale \div 1000

\* mutant of StaticPnl: the literal is not the engine's commission rate
StaticPnlOtherRate(trade) ==
    LET entry_commission == Mul(Mul(trade.shares, trade.entry_price), 2 * literal_rate)
        exit_commission == Mul(Mul(trade.shares, trade.exit_price[1]), 2 * literal_rate)
        total_commission == entry_commission + exit_commission
    IN  IF trade.position_type = "LONG"
        THEN Mul(trade.exit_price[1] - trade.entry_price, trade.shares) - total_commission
        ELSE Mul(trade.entry_price - trade.exit_price[1], trade.shares) - total_commission

\* _calculate_win_rate lines 300-308 and _calculate_profit_factor lines
\* 319-327: the P/L computed in the loop body, with the literal rate
StaticPnl(trade) ==
    LET entry_commission == Mul(Mul(trade.shares, trade.entry_price), literal_rate)
        exit_commission == Mul(Mul(trade.shares, trade.exit_price[1]), literal_rate)
        total_commission == entry_commission + exit_commission
    IN  IF trade.position_type = "LONG"
        THEN Mul(trade.exit_price[1] - trade.entry_price, trade.shares) - total_commission
        ELSE Mul(trade.entry_price - trade.exit_price[1], trade.shares) - total_commission

\* mutant of WinningTrades: a trade with P/L exactly 0 is a win
RECURSIVE WinningTradesOrEven(_)
WinningTradesOrEven(trades) ==
    IF trades = << >> THEN << >>
    ELSE IF StaticPnl(Head(trades)) >= 0
         THEN << Head(trades) >> \o WinningTradesOrEven(Tail(trades))
         ELSE WinningTradesOrEven(Tail(trades))

\* winning_trades of _calculate_win_rate
RECURSIVE WinningTrades(_)
WinningTrades(trades) ==
    IF trades = << >> THEN << >>
    ELSE IF StaticPnl(Head(trades)) > 0
         THEN << Head(trades) >> \o WinningTrades(Tail(trades))
         ELSE WinningTrades(Tail(trades))

\* _calculate_win_rate: len(winning_trades) / len(trades)
_calculate_win_rate(trades) ==
    IF trades = << >> THEN 0
    ELSE Round(Len(WinningTrades(trades)) * Scale, Len(trades))

\* mutant of GainsLosses: losses += pnl, without abs()
RECURSIVE GainsLossesNoAbs(_, _)
GainsLossesNoAbs(acc, trades) ==
    IF trades = << >> THEN acc
    ELSE LET pnl == StaticPnl(Head(trades))
         IN  GainsLossesNoAbs(IF pnl > 0
                              THEN [acc EXCEPT !.gains = @ + pnl]
                              ELSE [acc EXCEPT !.losses = @ + pnl],
                              Tail(trades))

\* _calculate_profit_factor, the loop: acc = [gains, losses]
RECURSIVE GainsLosses(_, _)
GainsLosses(acc, trades) ==
    IF trades = << >> THEN acc
    ELSE LET pnl == StaticPnl(Head(trades))
         IN  GainsLosses(IF pnl > 0
                         THEN [acc EXCEPT !.gains = @ + pnl]
                         ELSE [acc EXCEPT !.losses = @ + (IF pnl < 0 THEN -pnl ELSE pnl)],
                         Tail(trades))

\* _calculate_profit_factor
_calculate_profit_factor(trades) ==
    LET acc == GainsLosses([gains |-> 0, losses |-> 0], trades)
    IN  IF acc.losses > 0 THEN Finite(Div(acc.gains, acc.losses)) ELSE Infinity

\* mutant of DrawdownLoop: the peak is never raised
RECURSIVE DrawdownLoopFixedPeak(_, _)
DrawdownLoopFixedPeak(st, trades) ==
    IF trades = << >> \/ st.raised THEN st
    ELSE LET pnl == _calculate_trade_pnl(Head(trades))
             equity == st.equity + pnl
         IN  DrawdownLoopFixedPeak(
                 IF equity > st.peak
                 THEN [st EXCEPT !.equity = equity]
                 ELSE IF st.peak = 0
                 THEN [st EXCEPT !.equity = equity, !.raised = TRUE]
                 ELSE [st EXCEPT !.equity = equity,
                                 !.max_drawdown = Max(@, Div(st.peak - equity, st.peak))],
                 Tail(trades))

\* _calculate_max_drawdown, the loop: st = [equity, peak, max_drawdown, raised]
RECURSIVE DrawdownLoop(_, _)
DrawdownLoop(st, trades) ==
    IF trades = << >> \/ st.raised THEN st
    ELSE LET pnl == _calculate_trade_pnl(Head(trades))
             equity == st.equity + pnl
         IN  DrawdownLoop(
                 IF equity > st.peak
                 THEN [st EXCEPT !.equity = equity, !.peak = equity]
                 ELSE IF st.peak = 0
                 THEN [st EXCEPT !.equity = equity, !.raised = TRUE]
                 ELSE [st EXCEPT !.equity = equity,
                                 !.max_drawdown = Max(@, Div(st.peak - equity, st.peak))],
                 Tail(trades))

\* mutant of _calculate_max_drawdown: the replay starts from an equity of 0
DrawdownFromZero(ib, trades) ==
    LET st == DrawdownLoop([equity |-> 0, peak |-> 0, max_drawdown |-> 0,
                            raised |-> FALSE], trades)
    IN  IF st.raised THEN ZeroDivision ELSE Finite(st.max_drawdown)

\* _calculate_max_drawdown
_calculate_max_drawdown(ib, trades) ==
    LET st == DrawdownLoop([equity |-> ib, peak |-> ib, max_drawdown |-> 0,
                            raised |-> FALSE], trades)
    IN  IF st.raised THEN ZeroDivision ELSE Finite(st.max_drawdown)

\* closed_trades = [t for t in self.trade_history if t.status == "CLOSED"]
RECURSIVE ClosedTrades(_)
ClosedTrades(history) ==
    IF history = << >> THEN << >>
    ELSE IF Head(history).status = "CLOSED"
         THEN << Head(history) >> \o ClosedTrades(Tail(history))
         ELSE ClosedTrades(Tail(history))

\* mutant of NoClosedTrades: the guard is missing
NoGuard(closed_trades) == FALSE

\* _calculate_metrics, lines 239-247: the guard for an empty history
NoClosedTrades(closed_trades) == closed_trades = << >>

\* _calculate_metrics
_calculate_metrics(ib, bal, history) ==
    LET closed_trades == ClosedTrades(history)
    IN  IF NoClosedTrades(closed_trades)
        THEN [initial_balance |-> ib, final_balance |-> bal, total_trades |-> 0,
              win_rate |-> 0, profit_factor |-> Finite(0), max_drawdown |-> Finite(0)]
        ELSE [initial_balance |-> ib, final_balance |-> bal,
              total_trades |-> Len(closed_trades),
              win_rate |-> _calculate_win_rate(closed_trades),
              profit_factor |-> _calculate_profit_factor(closed_trades),
              max_drawdown |-> _calculate_max_drawdown(ib, closed_trades)]

-----------------------------------------------------------------------------
(* State machine *)

Self == Engine(balance, positions, trade_history)

SetEngine(e) ==
    /\ balance' = e.balance
    /\ positions' = e.positions
    /\ trade_history' = e.trade_history
    \* a Trade object was constructed iff the open list grew
    /\ nobjs' = IF Len(e.positions) > Len(positions) THEN nobjs + 1 ELSE nobjs

\* TradeSimulator(initial_balance)
Init ==
    /\ initial_balance \in InitialBalances
    /\ balance = initial_balance
    /\ positions = << >>
    /\ trade_history = << >>
    /\ pc = "idle"
    /\ idx = 0
    /\ current_price = 0
    /\ nrows = 0
    /\ feed_valid = TRUE
    /\ feed_order = "increasing"
    /\ nobjs = 0
    /\ call = [op |-> "init"]

(* run(signals, market_data), one action per step of its body.  The rows of
   the two frames are inputs; each is drawn when the code reads it. *)

\* lines 60-72: the column checks
RunStart ==
    /\ pc = "idle"
    /\ \E signal_cols \in SUBSET SignalCols, market_cols \in SUBSET MarketCols :
          /\ pc' = IF ColumnsPresent(signal_cols, market_cols) THEN "loop" ELSE "ValueError"
          /\ call' = [op |-> "run", signal_cols |-> signal_cols, market_cols |-> market_cols]
    /\ UNCHANGED << initial_balance, balance, positions, trade_history, idx,
                    current_price, nrows, feed_valid, feed_order, nobjs >>

\* the order of the index after one more row with timestamp t, where last is
\* the timestamp of the row before it (of n rows so far)
NextOrder(order, n, last, t) ==
    IF n = 0 THEN order
    ELSE IF order = "unordered" \/ t < last THEN "unordered"
    ELSE IF t = last THEN "nondecreasing"
    ELSE order

\* lines 74-78: the next row is read and the open positions are updated
RunUpdate ==
    /\ pc = "loop"
    /\ nrows < MaxBars
    /\ \E t \in Timestamps, close \in Prices :
          /\ idx' = t
          /\ current_price' = close
          /\ SetEngine(_update_positions(Self, close, t))
          /\ call' = [op |-> "update", price |-> close]
          /\ feed_order' = NextOrder(feed_order, nrows, idx, t)
    /\ nrows' = nrows + 1
    /\ pc' = "signal"
    /\ UNCHANGED << initial_balance, feed_valid >>

\* lines 80-101: the row's signal is processed
RunSignal ==
    /\ pc = "signal"
    /\ \E signal \in Signals, trade_weight \in Weights :
          /\ SetEngine(ProcessSignal(Self, nobjs + 1, signal, trade_weight, current_price, idx))
          /\ feed_valid' = (/\ feed_valid
                            /\ signal \in {-1, 0, 1}
                            /\ 0 <= trade_weight /\ trade_weight <= One)
          /\ call' = [op |-> "signal", signal |-> signal, trade_weight |-> trade_weight]
    /\ pc' = "loop"
    /\ UNCHANGED << initial_balance, idx, current_price, nrows, feed_order >>

\* lines 103-118: the rows are exhausted; the last row is market_data.iloc[-1]
RunEnd ==
    /\ pc = "loop"
    /\ nrows >= 1
    /\ LET e == CloseRemaining(Self, current_price, idx)
           metrics == _calculate_metrics(initial_balance, e.balance, e.trade_history)
       IN  /\ SetEngine(e)
           /\ pc' = IF metrics.max_drawdown = ZeroDivision
                    THEN "ZeroDivisionError" ELSE "returned"
           /\ call' = [op |-> "return", metrics |-> metrics]
    /\ UNCHANGED << initial_balance, idx, current_price, nrows, feed_valid, feed_order >>

\* line 104 on frames without rows: iloc[-1] raises IndexError
RunEndNoRows ==
    /\ pc = "loop"
    /\ nrows = 0
    /\ pc' = "IndexError"
    /\ call' = [op |-> "return"]
    /\ UNCHANGED << initial_balance, balance, positions, trade_history, idx,
                    current_price, nrows, feed_valid, feed_order, nobjs >>

Next == RunStart \/ RunUpdate \/ RunSignal \/ RunEnd \/ RunEndNoRows

Spec == Init /\ [][Next]_vars

(* The engine's operations called one by one, in any order, by a caller that
   holds references to the Trade objects.  The k-th call passes k as its
   timestamp. *)

PositionTypes == {"LONG", "SHORT"}
\* weights a caller passes to _enter_position: 0, 0.5, 1.0
OpWeights == {0, Scale \div 2, Scale}
\* (risk_pct, reward_pct): the defaults, and zero risk and reward
RiskRewards == {<< default_risk_pct, default_reward_pct >>, << 0, 0 >>}
\* reasons a caller passes to _exit_position
OpReasons == {"SIGNAL", "BACKTEST_END"}

OpEnter ==
    /\ pc = "idle"
    /\ idx < MaxOps
    /\ idx' = idx + 1
    /\ \E price \in Prices, position_type \in PositionTypes,
          position_weight \in OpWeights, rr \in RiskRewards :
          /\ SetEngine(_enter_position(Self, nobjs + 1, price, idx + 1, position_type,
                                       position_weight, rr[1], rr[2]))
          /\ current_price' = price
          /\ call' = [op |-> "enter", price |-> price, position_type |-> position_type,
                      position_weight |-> position_weight,
                      risk_pct |-> rr[1], reward_pct |-> rr[2]]
    /\ UNCHANGED << initial_balance, pc, nrows, feed_valid, feed_order >>

OpExit ==
    /\ pc = "idle"
    /\ idx < MaxOps
    /\ idx' = idx + 1
    /\ \E position \in Range(positions) \cup Range(trade_history),
          price \in Prices, reason \in OpReasons :
          /\ SetEngine(_exit_position(Self, position, price, idx + 1, reason))
          /\ current_price' = price
          /\ call' = [op |-> "exit", id |-> position.id, price |-> price,
                      reason |-> reason, was_open |-> position.status = "OPEN"]
    /\ UNCHANGED << initial_balance, pc, nrows, feed_valid, feed_order >>

OpUpdate ==
    /\ pc = "idle"
    /\ idx < MaxOps
    /\ idx' = idx + 1
    /\ \E price \in Prices :
          /\ SetEngine(_update_positions(Self, price, idx + 1))
          /\ current_price' = price
          /\ call' = [op |-> "update", price |-> price]
    /\ UNCHANGED << initial_balance, pc, nrows, feed_valid, feed_order >>

NextOps == OpEnter \/ OpExit \/ OpUpdate

SpecOps == Init /\ [][NextOps]_vars

(* The metrics as functions of a closed-trade history: the history and the
   initial balance are inputs, drawn in the initial state. *)

\* a trade entered at 10.0 ...
MetricEntryPrice == 10 * Scale
\* ... and closed at 9.8 (its stop), 10.02 (break-even for LONG after
\* commission) or 10.5 (its target)
MetricExitPrices == {(98 * Scale) \div 10, 10 * Scale + (2 * Scale) \div 100,
                     (105 * Scale) \div 10}
\* 1 or 10 shares
MetricShares == {Scale, 10 * Scale}
TradeParams == MetricExitPrices \X MetricShares \X PositionTypes

\* the i-th trade of an input history: exit price x[1], shares x[2], type x[3]
MetricTrade(i, x) ==
    Closed(Trade(i, 1, MetricEntryPrice, x[2], Scale \div 2,
                 StopLoss(MetricEntryPrice, x[3], default_risk_pct),
                 TargetPrice(MetricEntryPrice, x[3], default_reward_pct), x[3]),
           x[1], 2, "SIGNAL")

InitMetrics ==
    /\ initial_balance \in InitialBalances
    /\ balance = initial_balance
    /\ positions = << >>
    /\ \E n \in 0..MaxTrades : \E f \in [1..n -> TradeParams] :
          /\ trade_history = [i \in 1..n |-> MetricTrade(i, f[i])]
          /\ nobjs = n
    /\ pc = "idle"
    /\ idx = 0
    /\ current_price = 0
    /\ nrows = 0
    /\ feed_valid = TRUE
    /\ feed_order = "increasing"
    /\ call = [op |-> "init"]

\* self._calculate_metrics()
CalcMetrics ==
    /\ pc = "idle"
    /\ pc' = "metrics"
    /\ call' = [op |-> "metrics",
                metrics |-> _calculate_metrics(initial_balance, balance, trade_history)]
    /\ UNCHANGED << initial_balance, balance, positions, trade_history, idx,
                    current_price, nrows, feed_valid, feed_order, nobjs >>

NextMetrics == CalcMetrics

SpecMetrics == InitMetrics /\ [][NextMetrics]_vars

-----------------------------------------------------------------------------
(* Properties *)

AllTrades == Range(positions) \cup Range(trade_history)

\* C1: starting from initial_balance >= 0, in every state reached by run() on
\* a feed whose signals are in {-1,0,1} and whose weights are in [0,1], with
\* positive prices, balance >= 0.
C1_BalanceNonNegative ==
    (feed_valid /\ initial_balance >= 0) => balance >= 0

\* C2: exit on a position that is already closed, with any price, timestamp
\* and reason, leaves balance, the open list and the trade history (so also
\* the position's exit_date, exit_price and reason) as they were.
C2_ExitIdempotent ==
    [][ (idx' # idx /\ call'.op = "exit" /\ ~call'.was_open)
        => /\ balance' = balance
           /\ positions' = positions
           /\ trade_history' = trade_history ]_vars

\* a second exit on a closed position, with another price, has been executed
C2_Witness ==
    /\ call.op = "exit"
    /\ ~call.was_open
    /\ \E t \in Range(trade_history) :
          /\ t.id = call.id
          /\ t.exit_price # Some(call.price)
          /\ t.exit_date # Some(idx)

\* C3: when run() returns, the open list is empty, and every position that
\* was open after the last row was processed is in the trade history, CLOSED,
\* with reason BACKTEST_END, the last row's close as exit_price and the last
\* row's index as exit_date.
C3_ForceClose ==
    [][ (pc = "loop" /\ pc' = "returned")
        => /\ positions' = << >>
           /\ \A i \in DOMAIN positions :
                 \E j \in DOMAIN trade_history' :
                    LET t == trade_history'[j]
                    IN  /\ t.id = positions[i].id
                        /\ t.status = "CLOSED"
                        /\ t.reason = Some("BACKTEST_END")
                        /\ t.exit_price = Some(current_price)
                        /\ t.exit_date = Some(idx) ]_vars

\* run() has returned after force-closing two positions
C3_Witness ==
    /\ pc = "returned"
    /\ Cardinality({j \in DOMAIN trade_history :
                       trade_history[j].reason = Some("BACKTEST_END")}) >= 2

\* both the stop and the target condition of _update_positions hold
BothTriggered(position, price) ==
    IF position.position_type = "LONG"
    THEN price <= position.stop_loss /\ price >= position.target_price
    ELSE price >= position.stop_loss /\ price <= position.target_price

\* C4: in one update, an open position for which both the stop and the
\* target condition hold is closed exactly once, with reason STOP_LOSS.
C4_StopLossPrecedence ==
    [][ (idx' # idx /\ call'.op = "update")
        => \A i \in DOMAIN positions :
              BothTriggered(positions[i], call'.price)
              => /\ \A k \in DOMAIN positions' : positions'[k].id # positions[i].id
                 /\ Cardinality({j \in DOMAIN trade_history' :
                                    trade_history'[j].id = positions[i].id}) = 1
                 /\ \A j \in DOMAIN trade_history' :
                       trade_history'[j].id = positions[i].id
                       => /\ trade_history'[j].reason = Some("STOP_LOSS")
                          /\ trade_history'[j].status = "CLOSED" ]_vars

\* one update has closed a LONG and a SHORT position for which both
\* conditions held
C4_Witness ==
    /\ call.op = "update"
    /\ \E t, u \in Range(trade_history) :
          /\ t.position_type = "LONG" /\ u.position_type = "SHORT"
          /\ t.exit_date = Some(idx) /\ u.exit_date = Some(idx)
          /\ BothTriggered(t, call.price) /\ BothTriggered(u, call.price)
          /\ t.reason = Some("STOP_LOSS") /\ u.reason = Some("STOP_LOSS")

\* C5: a row with signal -1 and weight > 0 closes all open positions, and
\* appends them to the trade history in ascending entry_date order.
C5_FifoCloseOrder ==
    [][ (pc = "signal" /\ pc' = "loop" /\ call'.signal = -1 /\ call'.trade_weight > 0)
        => LET n == Len(trade_history)
           IN  /\ Len(trade_history') = n + Len(positions)
               /\ \A i, j \in (n + 1)..Len(trade_history') :
                     i < j => trade_history'[i].entry_date <= trade_history'[j].entry_date ]_vars

\* a signal -1 has closed two positions, the one created later (with the
\* earlier entry_date) first
C5_Witness ==
    /\ pc = "loop"
    /\ call.op = "signal"
    /\ call.signal = -1
    /\ \E i, j \in DOMAIN trade_history :
          /\ i < j
          /\ trade_history[i].reason = Some("SIGNAL")
          /\ trade_history[j].reason = Some("SIGNAL")
          /\ trade_history[i].exit_date = Some(idx)
          /\ trade_history[j].exit_date = Some(idx)
          /\ trade_history[i].id > trade_history[j].id
          /\ trade_history[i].entry_date < trade_history[j].entry_date

\* C6: on a feed with a signal outside {-1,0,1} or a trade_weight outside
\* [0,1], run() raises before any row is processed: it does not return a
\* result, and no entry and no exit is executed.
C6_InvalidFeedRejected ==
    ~feed_valid
    => /\ pc # "returned"
       /\ nobjs = 0
       /\ trade_history = << >>
       /\ balance = initial_balance

\* C7: when a required column is missing from the signal frame or from the
\* market frame, run() raises ValueError before any row is read, and balance,
\* the open list and the trade history are as they were.
C7_MissingColumns ==
    /\ (call.op = "run"
        /\ (call.signal_cols # SignalCols \/ call.market_cols # MarketCols))
       => pc = "ValueError"
    /\ pc = "ValueError"
       => /\ nrows = 0
          /\ balance = initial_balance
          /\ positions = << >>
          /\ trade_history = << >>

\* run() has raised on a market frame that lacks only "close"
C7_Witness ==
    /\ pc = "ValueError"
    /\ call.op = "run"
    /\ call.signal_cols = SignalCols
    /\ call.market_cols = MarketCols \ {"close"}

\* C8: for every position, exit_date, exit_price and reason are all set if
\* status = CLOSED and all unset if status = OPEN.
C8_ExitFieldsIffClosed ==
    \A t \in AllTrades :
       /\ t.status \in {"OPEN", "CLOSED"}
       /\ t.status = "CLOSED"
          => t.exit_date # NoneValue /\ t.exit_price # NoneValue /\ t.reason # NoneValue
       /\ t.status = "OPEN"
          => t.exit_date = NoneValue /\ t.exit_price = NoneValue /\ t.reason = NoneValue

\* an open position next to one that update closed at its target
C8_Witness ==
    /\ \E t \in AllTrades : t.status = "OPEN"
    /\ \E t \in AllTrades : t.status = "CLOSED" /\ t.reason = Some("TARGET")

OpenClosedPartition ==
    /\ \A i \in DOMAIN positions : positions[i].status = "OPEN"
    /\ \A j \in DOMAIN trade_history : trade_history[j].status = "CLOSED"
    /\ \A i \in DOMAIN positions : \A j \in DOMAIN trade_history :
          positions[i].id # trade_history[j].id

\* C9: the open list holds only OPEN positions, the trade history only CLOSED
\* ones, no position is in both; every step leaves the entries of the trade
\* history as they are and only appends; a CLOSED position does not return to
\* the open list.
C9_AppendOnlyHistory ==
    [][ /\ OpenClosedPartition
        /\ OpenClosedPartition'
        /\ Len(trade_history') >= Len(trade_history)
        /\ SubSeq(trade_history', 1, Len(trade_history)) = trade_history
        /\ \A j \in DOMAIN trade_history : \A i \in DOMAIN positions' :
              positions'[i].id # trade_history[j].id ]_vars

\* exit has moved a position to the history while another stays open
C9_Witness ==
    /\ Len(trade_history) >= 1
    /\ Len(positions) >= 1
    /\ call.op = "exit"
    /\ call.was_open

\* C10: a position created by enter with positive risk_pct and reward_pct has,
\* for LONG, stop_loss = entry_price*(1-risk_pct) < entry_price < target_price
\* = entry_price*(1+reward_pct), and for SHORT stop_loss above and
\* target_price below entry_price.
C10_RiskLevels ==
    (/\ call.op = "enter"
     /\ call.risk_pct > 0 /\ call.reward_pct > 0
     /\ positions # << >>
     /\ positions[Len(positions)].entry_date = idx)
    => LET p == positions[Len(positions)]
       IN  IF p.position_type = "LONG"
           THEN /\ p.stop_loss = Mul(p.entry_price, One - call.risk_pct)
                /\ p.target_price = Mul(p.entry_price, One + call.reward_pct)
                /\ p.stop_loss < p.entry_price
                /\ p.entry_price < p.target_price
           ELSE /\ p.stop_loss > p.entry_price
                /\ p.target_price < p.entry_price

ExitReasons == {"SIGNAL", "STOP_LOSS", "TARGET", "BACKTEST_END"}

\* C11: when run() returns, every position created during the run is in the
\* trade history exactly once, CLOSED, with a reason in {SIGNAL, STOP_LOSS,
\* TARGET, BACKTEST_END}, and the history has as many entries as there were
\* successful entries.
C11_ClosedExactlyOnce ==
    pc = "returned"
    => /\ Len(trade_history) = nobjs
       /\ \A id \in 1..nobjs :
             Cardinality({j \in DOMAIN trade_history : trade_history[j].id = id}) = 1
       /\ \A j \in DOMAIN trade_history :
             /\ trade_history[j].status = "CLOSED"
             /\ \E r \in ExitReasons : trade_history[j].reason = Some(r)

\* run() has returned two trades that were closed for different reasons
C11_Witness ==
    /\ pc = "returned"
    /\ nobjs >= 2
    /\ \E i, j \in DOMAIN trade_history :
          trade_history[i].reason # trade_history[j].reason

\* C12: a LONG position entered at price P (any weight in (0,1], positive
\* balance) and exited at the same price P has realized P&L
\* -(entry_commission + exit_commission) = -2*shares*P*commission_rate < 0.
C12_RoundTripLoss ==
    \A t \in Range(trade_history) :
       (/\ t.position_type = "LONG"
        /\ t.exit_price = Some(t.entry_price)
        /\ 0 < t.position_weight /\ t.position_weight <= One)
       => LET entry_commission == Mul(Mul(t.shares, t.entry_price), commission_rate)
              exit_commission == Mul(Mul(t.shares, t.exit_price[1]), commission_rate)
          IN  /\ _calculate_trade_pnl(t) = -(entry_commission + exit_commission)
              /\ _calculate_trade_pnl(t) = -(2 * Mul(Mul(t.shares, t.entry_price), commission_rate))
              /\ _calculate_trade_pnl(t) < 0
              /\ ExitPnl(t, t.exit_price[1]) = _calculate_trade_pnl(t)

\* exit has closed a LONG position at its entry price
C12_Witness ==
    /\ call.op = "exit"
    /\ call.was_open
    /\ \E t \in Range(trade_history) :
          /\ t.id = call.id
          /\ t.position_type = "LONG"
          /\ t.exit_price = Some(t.entry_price)
          /\ t.position_weight = One

\* gains: the sum of the strictly positive realized P&Ls
RECURSIVE RefGains(_)
RefGains(trades) ==
    IF trades = << >> THEN 0
    ELSE LET pnl == _calculate_trade_pnl(Head(trades))
         IN  (IF pnl > 0 THEN pnl ELSE 0) + RefGains(Tail(trades))

\* losses: the sum of the absolute values of the negative realized P&Ls
RECURSIVE RefLosses(_)
RefLosses(trades) ==
    IF trades = << >> THEN 0
    ELSE LET pnl == _calculate_trade_pnl(Head(trades))
         IN  (IF pnl < 0 THEN -pnl ELSE 0) + RefLosses(Tail(trades))

\* C13 as stated: over a non-empty closed-trade history profit_factor is
\* gains / losses, and it is +infinity exactly when losses = 0 and gains > 0.
C13_ProfitFactorAsStated ==
    (pc = "metrics" /\ trade_history # << >>)
    => LET pf == call.metrics.profit_factor
           gains == RefGains(trade_history)
           losses == RefLosses(trade_history)
       IN  /\ losses > 0 => pf = Finite(Div(gains, losses))
           /\ pf = Infinity <=> (losses = 0 /\ gains > 0)

\* C13 (amended): over a non-empty closed-trade history profit_factor is
\* gains / losses when losses > 0, and it is +infinity exactly when
\* losses = 0, whether or not there are gains.
C13_ProfitFactor ==
    (pc = "metrics" /\ trade_history # << >>)
    => LET pf == call.metrics.profit_factor
           gains == RefGains(trade_history)
           losses == RefLosses(trade_history)
       IN  /\ losses > 0 => pf = Finite(Div(gains, losses))
           /\ pf = Infinity <=> losses = 0

\* the metrics of a history of one break-even trade and two winning trades
C13_Witness ==
    /\ pc = "metrics"
    /\ Len(trade_history) = 3
    /\ call.metrics.profit_factor = Infinity
    /\ RefGains(trade_history) > 0
    /\ \E i \in DOMAIN trade_history : _calculate_trade_pnl(trade_history[i]) = 0

\* C14: when run() ends with an empty trade history, it returns (no
\* division by zero) metrics with total_trades = 0, win_rate = 0.0,
\* profit_factor = 0.0, max_drawdown = 0.0 and final_balance = initial_balance.
C14_EmptyHistoryMetrics ==
    (pc \in {"returned", "ZeroDivisionError"} /\ trade_history = << >>)
    => /\ pc = "returned"
       /\ call.metrics.total_trades = 0
       /\ call.metrics.win_rate = 0
       /\ call.metrics.profit_factor = Finite(0)
       /\ call.metrics.max_drawdown = Finite(0)
       /\ call.metrics.final_balance = initial_balance
       /\ call.metrics.initial_balance = initial_balance

\* a run over three bars returns with an empty history
C14_Witness ==
    /\ pc = "returned"
    /\ trade_history = << >>
    /\ nrows = 3
    /\ call.op = "return"
    /\ call.metrics.total_trades = 0

\* the reference replay: equity after the first k trades
RECURSIVE RefEquity(_, _, _)
RefEquity(ib, trades, k) ==
    IF k = 0 THEN ib
    ELSE RefEquity(ib, trades, k - 1) + _calculate_trade_pnl(trades[k])

\* the running maximum of equity after the first k trades
RefPeak(ib, trades, k) ==
    LET equities == {RefEquity(ib, trades, j) : j \in 0..k}
    IN  CHOOSE m \in equities : \A x \in equities : x <= m

\* the maximum over all steps of (peak - equity) / peak, 0.0 if equity never
\* falls below its peak
RefMaxDrawdown(ib, trades) ==
    LET drawdowns == {Div(RefPeak(ib, trades, k) - RefEquity(ib, trades, k),
                          RefPeak(ib, trades, k)) : k \in 1..Len(trades)} \cup {0}
    IN  CHOOSE m \in drawdowns : \A x \in drawdowns : x <= m

FillLevel(t) ==
    IF t.reason = Some("STOP_LOSS") THEN t.stop_loss ELSE t.target_price

\* the proceeds of filling every trade of a list at its level, net of the
\* exit commission
RECURSIVE LevelCredits(_)
LevelCredits(trades) ==
    IF trades = << >> THEN 0
    ELSE LET t == Head(trades)
             proceeds == Mul(t.shares, FillLevel(t))
         IN  proceeds - Mul(proceeds, commission_rate) + LevelCredits(Tail(trades))

\* C17: a position closed by update fills at its own level, not at the bar's
\* price: every STOP_LOSS trade has exit_price = stop_loss, every TARGET trade
\* has exit_price = target_price, and the balance is credited with the
\* proceeds computed from that level.
C17_FillAtLevel ==
    [][call'.op = "update"
       => LET closed == SubSeq(trade_history', Len(trade_history) + 1, Len(trade_history'))
          IN  /\ \A t \in Range(closed) :
                    /\ t.reason \in {Some("STOP_LOSS"), Some("TARGET")}
                    /\ t.exit_price = Some(FillLevel(t))
              /\ balance' = balance + LevelCredits(closed)
              /\ \A t \in Range(trade_history') :
                    /\ t.reason = Some("STOP_LOSS") => t.exit_price = Some(t.stop_loss)
                    /\ t.reason = Some("TARGET") => t.exit_price = Some(t.target_price)]_vars

\* an update at a price beyond the target has just closed a position at its
\* target price
C17_Witness ==
    /\ call.op = "update"
    /\ pc = "signal"
    /\ trade_history # << >>
    /\ LET t == trade_history[Len(trade_history)]
       IN  /\ t.reason = Some("TARGET")
           /\ t.exit_date = Some(idx)
           /\ t.exit_price = Some(t.target_price)
           /\ call.price > t.target_price

\* the shares computed by the entry that call c makes from balance bal, where
\* c is a direct call of _enter_position or a row with signal 1 and a
\* positive weight
EnterCalled(c) ==
    \/ c.op = "enter"
    \/ c.op = "signal" /\ c.signal = 1 /\ c.trade_weight > 0

ComputedShares(c, bal, price) ==
    IF c.op = "enter" THEN EntryShares(bal, c.price, c.position_weight)
    ELSE EntryShares(bal, price, c.trade_weight)

\* C18: an entry whose computed shares are <= 0 is a pure no-op: no position
\* is created, balance, the open list and the trade history are unchanged,
\* and run() goes on to the next bar.
C18_SkippedEntryNoOp ==
    [][(EnterCalled(call') /\ ComputedShares(call', balance, current_price') <= 0)
       => /\ balance' = balance
          /\ positions' = positions
          /\ trade_history' = trade_history
          /\ nobjs' = nobjs
          /\ pc = "signal" => pc' = "loop"]_vars

\* the whole balance went into a position on an earlier bar; the entry signal
\* of the current bar found balance = 0 and created nothing
C18_Witness ==
    /\ pc = "loop"
    /\ call.op = "signal" /\ call.signal = 1 /\ call.trade_weight > 0
    /\ initial_balance > 0
    /\ balance = 0
    /\ nobjs = 1
    /\ Len(positions) = 1
    /\ positions[1].entry_date < idx
    /\ positions[1].position_weight = One

\* the weight passed to the entry that call c makes
EnterWeight(c) == IF c.op = "enter" THEN c.position_weight ELSE c.trade_weight

\* C19: a successful enter with 0 < weight <= 1 debits at most
\* available = balance * weight, so the balance after it is at least
\* balance * (1 - weight).
C19_DebitWithinAvailable ==
    [][(/\ EnterCalled(call')
        /\ 0 < EnterWeight(call') /\ EnterWeight(call') <= One
        /\ nobjs' = nobjs + 1)
       => /\ balance - balance' <= Mul(balance, EnterWeight(call'))
          /\ balance' >= Mul(balance, One - EnterWeight(call'))]_vars

\* price is at or beyond the stop or the target of position p
LevelHit(p, price) ==
    IF p.position_type = "LONG"
    THEN price <= p.stop_loss \/ price >= p.target_price
    ELSE price >= p.stop_loss \/ price <= p.target_price

\* update runs before the bar's signal is dispatched: when the signal is
\* dispatched no open position is at its stop or target, so a trade closed
\* with reason SIGNAL was not at its stop or target at that bar's close
UpdateBeforeDispatch ==
    /\ pc = "signal" => \A p \in Range(positions) : ~LevelHit(p, current_price)
    /\ \A t \in Range(trade_history) :
          t.reason = Some("SIGNAL") => ~LevelHit(t, t.exit_price[1])

\* no trade was closed by update at the timestamp it was entered at
NoSameDateLevelExit ==
    \A t \in Range(trade_history) :
       t.reason \in {Some("STOP_LOSS"), Some("TARGET")}
       => t.exit_date # Some(t.entry_date)

\* C20 as stated: on a valid feed with a non-decreasing index, update runs
\* before the bar's signal is dispatched, and no trade has exit reason
\* STOP_LOSS or TARGET with exit_date equal to its entry_date.
C20_AsStated ==
    (feed_valid /\ feed_order # "unordered")
    => (UpdateBeforeDispatch /\ NoSameDateLevelExit)

\* C20 (amended): update runs before the bar's signal is dispatched, so a
\* position at its stop or target on a bar with signal -1 is closed with
\* reason STOP_LOSS or TARGET, never SIGNAL; and when the timestamps of the
\* feed are strictly increasing, no trade has exit reason STOP_LOSS or TARGET
\* with exit_date equal to its entry_date.
C20_UpdateBeforeDispatch ==
    /\ UpdateBeforeDispatch
    /\ feed_order = "increasing" => NoSameDateLevelExit

\* on a feed with increasing timestamps, a bar with signal -1 whose price is
\* beyond the level of the only open position: update closed the position
\* with STOP_LOSS or TARGET, and the signal found nothing to close
C20_Witness ==
    /\ pc = "loop"
    /\ call.op = "signal" /\ call.signal = -1 /\ call.trade_weight > 0
    /\ feed_order = "increasing"
    /\ positions = << >>
    /\ Len(trade_history) = 1
    /\ trade_history[1].reason \in {Some("STOP_LOSS"), Some("TARGET")}
    /\ trade_history[1].exit_date = Some(idx)
    /\ trade_history[1].entry_date < idx
    /\ LevelHit(trade_history[1], current_price)

\* C21: on a bar whose signal is 0 or whose trade_weight is <= 0, the
\* dispatch of the signal takes no action: nothing is created, nothing is
\* closed, and balance, open list and history stay as update left them.
C21_NoActionDispatch ==
    [][(/\ pc = "signal"
        /\ call'.op = "signal"
        /\ (call'.signal = 0 \/ call'.trade_weight <= 0))
       => /\ balance' = balance
          /\ positions' = positions
          /\ trade_history' = trade_history
          /\ nobjs' = nobjs
          /\ pc' = "loop"]_vars

\* a bar with signal -1 and weight 0 has left a position open
C21_Witness ==
    /\ pc = "loop"
    /\ call.op = "signal" /\ call.signal = -1 /\ call.trade_weight = 0
    /\ positions # << >>
    /\ trade_history = << >>

\* C22: update leaves untouched every open position whose stop and target
\* conditions are both false at the current price: it stays in the open list
\* with all fields unchanged; if no position triggers, balance, open list and
\* trade history are unchanged.
C22_UpdateFrame ==
    [][call'.op = "update"
       => /\ \A i \in DOMAIN positions :
                ~LevelHit(positions[i], call'.price)
                => /\ \E j \in DOMAIN positions' : positions'[j] = positions[i]
                   /\ \A j \in DOMAIN trade_history' :
                         trade_history'[j].id = positions[i].id
                         => \E k \in DOMAIN trade_history :
                               trade_history[k] = trade_history'[j]
          /\ (\A i \in DOMAIN positions : ~LevelHit(positions[i], call'.price))
             => /\ balance' = balance
                /\ positions' = positions
                /\ trade_history' = trade_history]_vars

\* an update that closed one of two open positions at its stop or target,
\* at a price between the stop and the target of the other one
C22_Witness ==
    /\ call.op = "update"
    /\ Len(positions) = 1
    /\ positions[1].status = "OPEN"
    /\ positions[1].entry_date < idx
    /\ ~LevelHit(positions[1], call.price)
    /\ Len(trade_history) = 1
    /\ trade_history[1].exit_date = Some(idx)
    /\ trade_history[1].reason \in {Some("STOP_LOSS"), Some("TARGET")}

\* the trades of a history with realized P&L strictly greater than 0
Wins(trades) == {i \in DOMAIN trades : _calculate_trade_pnl(trades[i]) > 0}

\* C23: over a non-empty closed-trade history, win_rate is the number of
\* trades with realized P&L strictly greater than 0 divided by the number of
\* trades; a trade with P&L exactly 0 is not a win; 0 <= win_rate <= 1.
C23_WinRate ==
    (pc = "metrics" /\ trade_history # << >>)
    => /\ call.metrics.win_rate
             = Round(Cardinality(Wins(trade_history)) * Scale, Len(trade_history))
       /\ 0 <= call.metrics.win_rate /\ call.metrics.win_rate <= One
       /\ (\A i \in DOMAIN trade_history : _calculate_trade_pnl(trade_history[i]) <= 0)
          => call.metrics.win_rate = 0

\* the win rate of a history of one winning, one break-even and one losing
\* trade is one third
C23_Witness ==
    /\ pc = "metrics"
    /\ Len(trade_history) = 3
    /\ \E i, j, k \in DOMAIN trade_history :
          /\ _calculate_trade_pnl(trade_history[i]) > 0
          /\ _calculate_trade_pnl(trade_history[j]) = 0
          /\ _calculate_trade_pnl(trade_history[k]) < 0
    /\ call.metrics.win_rate = Round(Scale, 3)

\* the price difference of a closed trade in its favourable direction, times
\* its shares
GrossPnl(t) ==
    IF t.position_type = "LONG"
    THEN Mul(t.exit_price[1] - t.entry_price, t.shares)
    ELSE Mul(t.entry_price - t.exit_price[1], t.shares)

\* the realized P&L computed at exit time, by _calculate_trade_pnl and by the
\* loops of win_rate and profit_factor are one value
SamePnlEverywhere(t) ==
    /\ ExitPnl(t, t.exit_price[1]) = _calculate_trade_pnl(t)
    /\ StaticPnl(t) = _calculate_trade_pnl(t)

\* C24 as stated: for every closed trade the four computations of the
\* realized P&L are the same value, the price difference times shares minus
\* total_commission = shares * (entry_price + exit_price) * commission_rate.
C24_AsStated ==
    \A t \in Range(trade_history) :
       /\ SamePnlEverywhere(t)
       /\ _calculate_trade_pnl(t)
             = GrossPnl(t)
               - Mul(Mul(t.shares, t.entry_price + t.exit_price[1]), commission_rate)

\* C24 (amended): for every closed trade the four computations of the
\* realized P&L are the same value, the price difference times shares minus
\* total_commission = shares * entry_price * commission_rate
\*                    + shares * exit_price * commission_rate,
\* each product rounded on its own.
C24_SamePnl ==
    \A t \in Range(trade_history) :
       /\ SamePnlEverywhere(t)
       /\ _calculate_trade_pnl(t)
             = GrossPnl(t)
               - (Mul(Mul(t.shares, t.entry_price), commission_rate)
                  + Mul(Mul(t.shares, t.exit_price[1]), commission_rate))

\* a trade closed at its stop or target for which adding the two rounded
\* commissions and rounding the commission on the added prices differ
C24_Witness ==
    \E t \in Range(trade_history) :
       /\ t.exit_price # Some(t.entry_price)
       /\ t.reason \in {Some("STOP_LOSS"), Some("TARGET")}
       /\ Mul(Mul(t.shares, t.entry_price), commission_rate)
            + Mul(Mul(t.shares, t.exit_price[1]), commission_rate)
          # Mul(Mul(t.shares, t.entry_price + t.exit_price[1]), commission_rate)

\* sum over open positions of shares * entry_price * (1 + commission_rate)
RECURSIVE OpenCost(_)
OpenCost(ps) ==
    IF ps = << >> THEN 0
    ELSE Mul(Mul(Head(ps).shares, Head(ps).entry_price), One + commission_rate)
         + OpenCost(Tail(ps))

\* sum of the realized P&L of the trades of a history
RECURSIVE RealizedPnl(_)
RealizedPnl(history) ==
    IF history = << >> THEN 0
    ELSE _calculate_trade_pnl(Head(history)) + RealizedPnl(Tail(history))

\* the difference of the two sides of the reconciliation
ReconciliationGap ==
    (balance + OpenCost(positions)) - (initial_balance + RealizedPnl(trade_history))

C26_ExitSignalClosesAll ==
    [][(/\ pc = "signal"
        /\ call'.op = "signal"
        /\ call'.signal = -1 /\ call'.trade_weight > 0)
       => /\ positions' = << >>
          /\ Len(trade_history') = Len(trade_history) + Len(positions)
          /\ \A i \in DOMAIN positions :
                \E j \in DOMAIN trade_history' :
                   /\ j > Len(trade_history)
                   /\ trade_history'[j].id = positions[i].id
                   /\ trade_history'[j].status = "CLOSED"
                   /\ trade_history'[j].reason = Some("SIGNAL")
                   /\ trade_history'[j].exit_price = Some(current_price)
                   /\ trade_history'[j].exit_date = Some(idx)]_vars

\* a bar with signal -1 and weight 0.5 has closed two open positions
C26_Witness ==
    /\ pc = "loop"
    /\ call.op = "signal" /\ call.signal = -1 /\ call.trade_weight = Scale \div 2
    /\ positions = << >>
    /\ Len(trade_history) = 2
    /\ \A j \in DOMAIN trade_history :
          /\ trade_history[j].reason = Some("SIGNAL")
          /\ trade_history[j].exit_date = Some(idx)
          /\ trade_history[j].exit_price = Some(current_price)

\* C27: with the default risk_pct, reward_pct and commission_rate, every
\* LONG trade (of a weight in (0, 1]) closed with reason TARGET has realized P&L > 0 and is counted
\* as a win, and every LONG trade closed with reason STOP_LOSS has realized
\* P&L < 0 and is not.
C27_TargetWinsStopLoses ==
    \A t \in Range(trade_history) :
       (/\ t.position_type = "LONG"
        /\ 0 < t.position_weight /\ t.position_weight <= One)
       => /\ t.reason = Some("TARGET")
             => /\ _calculate_trade_pnl(t) > 0
                /\ WinningTrades(<< t >>) = << t >>
          /\ t.reason = Some("STOP_LOSS")
             => /\ _calculate_trade_pnl(t) < 0
                /\ WinningTrades(<< t >>) = << >>

\* run() has closed one position at its target and another at its stop
C27_Witness ==
    /\ feed_valid
    /\ \E t \in Range(trade_history) :
          t.reason = Some("TARGET") /\ t.position_type = "LONG"
    /\ \E t \in Range(trade_history) :
          t.reason = Some("STOP_LOSS") /\ t.position_type = "LONG"

\* C28: when run() ends, from initial_balance > 0 on a feed with weights in
\* [0, 1], the equity replayed by max_drawdown is never below 0 and the peak
\* is always > 0, so max_drawdown is in [0, 1] and nothing divides by zero.
C28_DrawdownInUnitInterval ==
    (pc \in {"returned", "ZeroDivisionError"} /\ initial_balance > 0 /\ feed_valid)
    => /\ pc = "returned"
       /\ \A k \in 0..Len(trade_history) :
             /\ RefEquity(initial_balance, trade_history, k) >= 0
             /\ RefPeak(initial_balance, trade_history, k) > 0
       /\ call.metrics.max_drawdown.kind = "finite"
       /\ 0 <= call.metrics.max_drawdown.value
       /\ call.metrics.max_drawdown.value <= One

\* run() has returned a positive max_drawdown after a losing trade
C28_Witness ==
    /\ pc = "returned"
    /\ initial_balance > 0
    /\ feed_valid
    /\ \E t \in Range(trade_history) : _calculate_trade_pnl(t) < 0
    /\ call.metrics.max_drawdown.kind = "finite"
    /\ call.metrics.max_drawdown.value > 0

\* the place of an exit reason in the order of a bar
ReasonRank(r) ==
    IF r \in {Some("STOP_LOSS"), Some("TARGET")} THEN 0
    ELSE IF r = Some("SIGNAL") THEN 1
    ELSE 2

\* the history is in non-decreasing exit_date order and no trade exits
\* before it was entered
ExitDatesOrdered(history) ==
    /\ \A i, j \in DOMAIN history :
          i < j => history[i].exit_date[1] <= history[j].exit_date[1]
    /\ \A i \in DOMAIN history : history[i].entry_date <= history[i].exit_date[1]

\* C29: when the feed's timestamps are non-decreasing, the history produced
\* by run() is in non-decreasing exit_date order and every trade has
\* entry_date <= exit_date; within one bar the history grows first by the
\* stop/target exits of update, then by the SIGNAL exits of the dispatch,
\* then (after the last bar) by the BACKTEST_END exits.
C29_HistoryOrder ==
    [][LET closed == SubSeq(trade_history', Len(trade_history) + 1, Len(trade_history'))
       IN  /\ Len(trade_history') >= Len(trade_history)
           /\ SubSeq(trade_history', 1, Len(trade_history)) = trade_history
           /\ \A t \in Range(closed) :
                 /\ pc = "loop" /\ pc' = "signal" => ReasonRank(t.reason) = 0
                 /\ pc = "signal" => t.reason = Some("SIGNAL")
                 /\ pc = "loop" /\ pc' # "signal" => t.reason = Some("BACKTEST_END")
           /\ feed_order' # "unordered" => ExitDatesOrdered(trade_history')
           /\ feed_order' = "increasing"
              => \A i, j \in DOMAIN trade_history' :
                    (i < j /\ trade_history'[i].exit_date = trade_history'[j].exit_date)
                    => ReasonRank(trade_history'[i].reason)
                          <= ReasonRank(trade_history'[j].reason)]_vars

\* on the last bar update closed a position at its target, the signal opened
\* another one, and the end of the run closed that one: two trades with the
\* same exit_date, the TARGET exit before the BACKTEST_END exit
C29_Witness ==
    /\ pc = "returned"
    /\ feed_order = "increasing"
    /\ Len(trade_history) = 2
    /\ trade_history[1].reason = Some("TARGET")
    /\ trade_history[2].reason = Some("BACKTEST_END")
    /\ trade_history[1].exit_date = trade_history[2].exit_date
    /\ trade_history[1].entry_date < trade_history[2].entry_date

====
